---- MODULE Spec2Model ----
(***************************************************************************)
(* VoiceNav: the voice-command-to-route pipeline.                          *)
(*   - VoiceRecognitionService (services/voiceRecognitionService.ts)       *)
(*   - extractRouteFromVoice   (services/voiceRecognitionService.ts)       *)
(*   - the route catalog and lookups (services/rapidKLService.ts)          *)
(*   - the home screen's voice handler (app/(tabs)/index.tsx)              *)
(* Strings are sequences of one-character strings, so that case folding,   *)
(* trimming and pattern matching are computed, not assumed.                *)
(***************************************************************************)
EXTENDS Integers, Sequences, FiniteSets, TLC

\* ------------------------------------------------------------------ bounds
MaxSessions == 2

\* ------------------------------------------------------------- characters
Range(f) == {f[i] : i \in DOMAIN f}

ToLowerChar(c) ==
    CASE c = "A" -> "a"
      [] c = "B" -> "b"
      [] c = "C" -> "c"
      [] c = "D" -> "d"
      [] c = "E" -> "e"
      [] c = "F" -> "f"
      [] c = "G" -> "g"
      [] c = "H" -> "h"
      [] c = "I" -> "i"
      [] c = "J" -> "j"
      [] c = "K" -> "k"
      [] c = "L" -> "l"
      [] c = "M" -> "m"
      [] c = "N" -> "n"
      [] c = "O" -> "o"
      [] c = "P" -> "p"
      [] c = "Q" -> "q"
      [] c = "R" -> "r"
      [] c = "S" -> "s"
      [] c = "T" -> "t"
      [] c = "U" -> "u"
      [] c = "V" -> "v"
      [] c = "W" -> "w"
      [] c = "X" -> "x"
      [] c = "Y" -> "y"
      [] c = "Z" -> "z"
      [] OTHER -> c

ToUpperChar(c) ==
    CASE c = "a" -> "A"
      [] c = "b" -> "B"
      [] c = "c" -> "C"
      [] c = "d" -> "D"
      [] c = "e" -> "E"
      [] c = "f" -> "F"
      [] c = "g" -> "G"
      [] c = "h" -> "H"
      [] c = "i" -> "I"
      [] c = "j" -> "J"
      [] c = "k" -> "K"
      [] c = "l" -> "L"
      [] c = "m" -> "M"
      [] c = "n" -> "N"
      [] c = "o" -> "O"
      [] c = "p" -> "P"
      [] c = "q" -> "Q"
      [] c = "r" -> "R"
      [] c = "s" -> "S"
      [] c = "t" -> "T"
      [] c = "u" -> "U"
      [] c = "v" -> "V"
      [] c = "w" -> "W"
      [] c = "x" -> "X"
      [] c = "y" -> "Y"
      [] c = "z" -> "Z"
      [] OTHER -> c

IsDigit(c) == c \in {"0","1","2","3","4","5","6","7","8","9"}
IsLetter(c) == ToLowerChar(c) # ToUpperChar(c)
IsSpace(c) == c = " "
IsWord(c) == IsDigit(c) \/ IsLetter(c) \/ c = "_"

toLowerCase(s) == [i \in 1..Len(s) |-> ToLowerChar(s[i])]
toUpperCase(s) == [i \in 1..Len(s) |-> ToUpperChar(s[i])]

trim(s) ==
    IF \A i \in 1..Len(s) : IsSpace(s[i]) THEN <<>>
    ELSE LET a == CHOOSE i \in 1..Len(s) :
                     ~IsSpace(s[i]) /\ \A k \in 1..(i-1) : IsSpace(s[k])
             b == CHOOSE i \in 1..Len(s) :
                     ~IsSpace(s[i]) /\ \A k \in (i+1)..Len(s) : IsSpace(s[k])
         IN SubSeq(s, a, b)

includes(s, sub) ==
    \E i \in 1..(Len(s) - Len(sub) + 1) : SubSeq(s, i, i + Len(sub) - 1) = sub

RemoveSpaces(s) == SelectSeq(s, LAMBDA c : ~IsSpace(c))

\* -------------------------------------------------- regular expressions
\* \b : position i (before character i, 1..Len+1) is a word boundary
WordAt(s, i) == i \in 1..Len(s) /\ IsWord(s[i])
Boundary(s, i) == WordAt(s, i - 1) # WordAt(s, i)

\* last index of the maximal run of characters of a class that starts at i
\* (i - 1 when the run is empty): greedy quantifiers
InClass(c, class) ==
    CASE class = "\\d" -> IsDigit(c)
      [] class = "[a-z]" -> IsLetter(c)
      [] class = "\\s" -> IsSpace(c)

RunEnd(s, i, class) ==
    CHOOSE j \in (i-1)..Len(s) :
        /\ \A k \in i..j : InClass(s[k], class)
        /\ (j = Len(s) \/ ~InClass(s[j+1], class))

\* a faulty digits pattern, without the leading \b: it finds the digits
\* inside a prefixed identifier (C33 must tell it from the real one)
DigitsMatchAtUnanchored(s, i) ==
    IF ~(i \in 1..Len(s) /\ IsDigit(s[i])) THEN 0
    ELSE LET d == RunEnd(s, i, "\\d")
             e == RunEnd(s, d + 1, "[a-z]")
         IN IF Boundary(s, e + 1) THEN e ELSE 0

\* /\b(\d+[a-z]*)\b/gi anchored at i: 0 when it fails, else the match's end
DigitsMatchAt(s, i) ==
    IF ~(i \in 1..Len(s) /\ Boundary(s, i) /\ IsDigit(s[i])) THEN 0
    ELSE LET d == RunEnd(s, i, "\\d")
             e == RunEnd(s, d + 1, "[a-z]")
         IN IF Boundary(s, e + 1) THEN e ELSE 0

\* /\b<p>\s*(\d+)\b/gi anchored at i, for the prefix letter p
PrefixedMatchAt(s, i, p) ==
    IF ~(i \in 1..Len(s) /\ Boundary(s, i) /\ ToLowerChar(s[i]) = p) THEN 0
    ELSE LET w == RunEnd(s, i + 1, "\\s")
             d == RunEnd(s, w + 1, "\\d")
         IN IF d > w /\ Boundary(s, d + 1) THEN d ELSE 0

\* /\b(alt1|alt2)\b/gi anchored at i: alternatives tried in order
PhraseMatchAt(s, i, alts) ==
    IF ~(i \in 1..Len(s) /\ Boundary(s, i)) THEN 0
    ELSE LET ok(k) == /\ i + Len(alts[k]) - 1 <= Len(s)
                      /\ SubSeq(s, i, i + Len(alts[k]) - 1) = alts[k]
                      /\ Boundary(s, i + Len(alts[k]))
         IN IF \E k \in DOMAIN alts : ok(k)
            THEN LET k == CHOOSE k \in DOMAIN alts :
                              ok(k) /\ \A h \in 1..(k-1) : ~ok(h)
                 IN i + Len(alts[k]) - 1
            ELSE 0

\* the patterns array, in order
patterns ==
    << [kind |-> "digits"],
       [kind |-> "prefixed", p |-> "t"],
       [kind |-> "prefixed", p |-> "u"],
       [kind |-> "prefixed", p |-> "b"],
       [kind |-> "phrase",
        alts |-> << <<"f","i","v","e"," ","e","i","g","h","t"," ","o","n","e">>,
                    <<"f","i","v","e"," ","e","i","g","h","t">> >>],
       [kind |-> "phrase",
        alts |-> << <<"e","i","g","h","t"," ","f","o","u","r">>,
                    <<"e","i","g","h","t","y"," ","f","o","u","r">> >>] >>

PatternMatchAt(s, i, pat) ==
    CASE pat.kind = "digits" -> DigitsMatchAt(s, i)
      [] pat.kind = "prefixed" -> PrefixedMatchAt(s, i, pat.p)
      [] pat.kind = "phrase" -> PhraseMatchAt(s, i, pat.alts)

\* cleanText.match(pattern): matches[0], the leftmost match, or <<>> (null)
FirstMatch(s, pat) ==
    IF \E i \in 1..Len(s) : PatternMatchAt(s, i, pat) > 0
    THEN LET i == CHOOSE i \in 1..Len(s) :
                      /\ PatternMatchAt(s, i, pat) > 0
                      /\ \A k \in 1..(i-1) : PatternMatchAt(s, k, pat) = 0
         IN SubSeq(s, i, PatternMatchAt(s, i, pat))
    ELSE <<>>

\* spokenToDigit, Object.entries order = declaration order
spokenToDigit ==
    << [spoken |-> <<"f","i","v","e"," ","e","i","g","h","t"," ","o","n","e">>,
        digit |-> <<"5","8","1">>],
       [spoken |-> <<"f","i","v","e"," ","e","i","g","h","t">>,
        digit |-> <<"5","8">>],
       [spoken |-> <<"e","i","g","h","t"," ","f","o","u","r">>,
        digit |-> <<"8","4">>],
       [spoken |-> <<"e","i","g","h","t","y"," ","f","o","u","r">>,
        digit |-> <<"8","4">>],
       [spoken |-> <<"o","n","e"," ","z","e","r","o"," ","o","n","e">>,
        digit |-> <<"1","0","1">>],
       [spoken |-> <<"f","o","u","r"," ","z","e","r","o"," ","z","e","r","o">>,
        digit |-> <<"4","0","0">>],
       [spoken |-> <<"f","i","v","e"," ","z","e","r","o"," ","z","e","r","o">>,
        digit |-> <<"5","0","0">>] >>

\* null is the empty sequence: no branch of the function returns ""
Null == <<>>

\* The(S): the element of a singleton set.  {F(x) : x \in {e}} computes e
\* once and hands its value to F.
The(S) == CHOOSE x \in S : TRUE

\* cleanText = text.toLowerCase().trim()
cleanTextOf(text) == The({trim(lower) : lower \in {toLowerCase(text)}})

\* a faulty extraction, which skips the spoken-number table and runs the
\* pattern loop only (C16 must tell it from the real one)
extractFromPatternsOnly(cleanText) ==
    IF \E k \in DOMAIN patterns : FirstMatch(cleanText, patterns[k]) # <<>>
    THEN LET k == CHOOSE k \in DOMAIN patterns :
                      /\ FirstMatch(cleanText, patterns[k]) # <<>>
                      /\ \A h \in 1..(k-1) :
                             FirstMatch(cleanText, patterns[h]) = <<>>
         IN toUpperCase(RemoveSpaces(FirstMatch(cleanText, patterns[k])))
    ELSE Null

\* a faulty extraction, which returns the digits of the last table phrase the
\* text contains instead of the first (C23 must tell it from the real one)
extractLastPhrase(cleanText) ==
    LET hits == {k \in DOMAIN spokenToDigit :
                    includes(cleanText, spokenToDigit[k].spoken)}
    IN IF hits # {}
       THEN spokenToDigit[CHOOSE k \in hits : \A h \in hits : h <= k].digit
       ELSE extractFromPatternsOnly(cleanText)

\* a faulty extraction, which returns the match that starts first in the text,
\* whichever pattern found it (C24 must tell it from the real one)
extractLeftmostMatch(cleanText) ==
    LET start(k) == CHOOSE i \in 1..Len(cleanText) :
                        /\ PatternMatchAt(cleanText, i, patterns[k]) > 0
                        /\ \A j \in 1..(i-1) :
                               PatternMatchAt(cleanText, j, patterns[k]) = 0
        hits == {k \in DOMAIN patterns :
                    FirstMatch(cleanText, patterns[k]) # <<>>}
    IN IF \E k \in DOMAIN spokenToDigit :
              includes(cleanText, spokenToDigit[k].spoken)
       THEN spokenToDigit[CHOOSE k \in DOMAIN spokenToDigit :
                /\ includes(cleanText, spokenToDigit[k].spoken)
                /\ \A h \in 1..(k-1) :
                       ~includes(cleanText, spokenToDigit[h].spoken)].digit
       ELSE IF hits # {}
       THEN LET k == CHOOSE k \in hits : \A h \in hits :
                         \/ start(k) < start(h)
                         \/ start(k) = start(h) /\ k <= h
            IN toUpperCase(RemoveSpaces(FirstMatch(cleanText, patterns[k])))
       ELSE Null

\* the two loops of extractRouteFromVoice over cleanText
extractFromCleanText(cleanText) ==
    LET spokenHit(k) == includes(cleanText, spokenToDigit[k].spoken)
        patHit(k) == FirstMatch(cleanText, patterns[k]) # <<>>
    IN IF \E k \in DOMAIN spokenToDigit : spokenHit(k)
       THEN spokenToDigit[CHOOSE k \in DOMAIN spokenToDigit :
                spokenHit(k) /\ \A h \in 1..(k-1) : ~spokenHit(h)].digit
       ELSE IF \E k \in DOMAIN patterns : patHit(k)
       THEN LET k == CHOOSE k \in DOMAIN patterns :
                         patHit(k) /\ \A h \in 1..(k-1) : ~patHit(h)
            IN toUpperCase(RemoveSpaces(FirstMatch(cleanText, patterns[k])))
       ELSE Null

extractRouteFromVoice(text) ==
    The({extractFromCleanText(cleanText) : cleanText \in {cleanTextOf(text)}})

\* recognized or simulated texts, and the confidences the recognizer reports
Texts ==
    { <<"t","e","a"," ","f","i","v","e"," ","e","i","g","h","t"," ","o","n","e">>,
      <<"t","5","8","1">>,
      <<"9","9","9">>,
      <<"r","a","n","d","o","m"," ","t","e","x","t">> }
Confidences == {75}

\* ------------------------------------------------------ route catalog
KL_BUS_ROUTES ==
    << [routeId |-> <<"5","8","1">>,     direction |-> "Both",     isExpress |-> FALSE],
       [routeId |-> <<"T","5","8","1">>, direction |-> "Both",     isExpress |-> TRUE],
       [routeId |-> <<"U","8","4">>,     direction |-> "Both",     isExpress |-> FALSE],
       [routeId |-> <<"B","1","0","1">>, direction |-> "Circular", isExpress |-> FALSE],
       [routeId |-> <<"4","0","0">>,     direction |-> "Both",     isExpress |-> FALSE],
       [routeId |-> <<"U","8","3">>,     direction |-> "Both",     isExpress |-> FALSE],
       [routeId |-> <<"5","0","0">>,     direction |-> "Both",     isExpress |-> FALSE],
       [routeId |-> <<"T","5","0","0">>, direction |-> "Both",     isExpress |-> TRUE] >>

KL_BUS_STOPS ==
    << [stopId |-> "KLS001", stopName |-> "KL Sentral",
        routes |-> << <<"5","8","1">>, <<"T","5","8","1">>, <<"U","8","4">>,
                      <<"B","1","0","1">>, <<"4","0","0">>, <<"5","0","0">>,
                      <<"T","5","0","0">> >>],
       [stopId |-> "BB001", stopName |-> "Bukit Bintang",
        routes |-> << <<"B","1","0","1">>, <<"4","0","0">>, <<"5","0","0">> >>],
       [stopId |-> "KLCC001", stopName |-> "KLCC",
        routes |-> << <<"B","1","0","1">>, <<"4","0","0">>, <<"T","4","0","0">> >>],
       [stopId |-> "GM001", stopName |-> "Gombak Terminal",
        routes |-> << <<"5","8","1">>, <<"T","5","8","1">> >>] >>

\* Location outcomes of getCurrentLocation: no fix (permission denied or the
\* provider failed), or a fix at one of these sample points.
NoFix == "unavailable"
Fixes == {"atKLSentral", "atBukitBintang", "betweenBBandKLCC", "farAway"}
Locations == {NoFix} \cup Fixes

\* further fixes, used where the catalog functions are called directly: near
\* KLCC (3.1550, 101.7114; KLCC is nearer than Bukit Bintang, both in range),
\* at the KLCC stop and at Gombak Terminal
MoreFixes == {"nearKLCC", "atKLCC", "atGombak"}

\* a location object whose latitude and longitude are NaN
NaNCoords == "NaNCoords"

\* calculateDistance(fix, stop): the haversine distance in whole metres from
\* each sample fix to each catalog stop (R = 6371 km), tabulated per stop in
\* KL_BUS_STOPS order.
calculateDistance(fix, stop) ==
    CASE fix = "atKLSentral"      -> <<0, 3303, 3933, 14201>>[stop]
      [] fix = "atBukitBintang"   -> <<3303, 0, 1027, 13865>>[stop]
      [] fix = "betweenBBandKLCC" -> <<3595, 513, 513, 13433>>[stop]
      [] fix = "farAway"          -> <<225645, 228918, 229563, 230956>>[stop]
      [] fix = "nearKLCC"         -> <<3779, 803, 223, 13190>>[stop]
      [] fix = "atKLCC"           -> <<3933, 1027, 0, 13007>>[stop]
      [] fix = "atGombak"         -> <<14201, 13865, 13007, 0>>[stop]

\* stop.distance <= maxDistance; with NaN coordinates the distance is NaN and
\* the comparison is false
withinDistance(location, stop, maxDistance) ==
    /\ location # NaNCoords
    /\ calculateDistance(location, stop) <= maxDistance

DefaultMaxDistance == 1000

slice(s, n) == SubSeq(s, 1, IF Len(s) < n THEN Len(s) ELSE n)

\* a faulty sort, which leaves the stops in catalog order (C26 must tell it
\* from the real one)
SortByCatalogOrder(fix, stops) ==
    [k \in 1..Cardinality(stops) |->
        CHOOSE a \in stops : Cardinality({b \in stops : b < a}) + 1 = k]

\* Array.prototype.sort is stable: stops at equal distance keep catalog order
SortByDistance(fix, stops) ==
    LET before(a, b) ==
            \/ calculateDistance(fix, a) < calculateDistance(fix, b)
            \/ calculateDistance(fix, a) = calculateDistance(fix, b) /\ a < b
        rank(a) == Cardinality({b \in stops : before(b, a)}) + 1
    IN [k \in 1..Cardinality(stops) |-> CHOOSE a \in stops : rank(a) = k]

\* the stops are returned as indices into KL_BUS_STOPS
getNearbyBusStops(location, maxDistance) ==
    IF location = NoFix
    THEN slice([i \in DOMAIN KL_BUS_STOPS |-> i], 3)
    ELSE slice(SortByDistance(location,
                   {i \in DOMAIN KL_BUS_STOPS :
                        withinDistance(location, i, maxDistance)}), 5)

RECURSIVE flatRoutes(_)
flatRoutes(stops) ==
    IF stops = <<>> THEN <<>>
    ELSE KL_BUS_STOPS[Head(stops)].routes \o flatRoutes(Tail(stops))

\* a faulty getNearbyRoutes, which lists every identifier the nearby stops
\* serve without looking it up in the catalog (C15 must tell it from the
\* real one)
getNearbyRoutesUnfiltered(location) ==
    LET nearbyStops == getNearbyBusStops(location, DefaultMaxDistance)
        ids == flatRoutes(nearbyStops)
    IN [routes |-> [i \in DOMAIN ids |->
                       [routeId |-> ids[i], direction |-> "Both",
                        isExpress |-> FALSE]],
        currentLocation |-> "Unknown location",
        nearestStop |-> "KL Sentral (default)"]

\* the catch block of getNearbyRoutes
caughtFallback ==
    [routes |-> slice(KL_BUS_ROUTES, 5),
     currentLocation |-> "Location unavailable",
     nearestStop |-> "KL Sentral (fallback)"]

\* a faulty getNearbyRoutes, which returns every catalog route the nearby
\* stops serve without cutting the list to 6 (C27 must tell it from the real
\* one)
getNearbyRoutesUncut(location) ==
    LET nearbyStops == getNearbyBusStops(location, DefaultMaxDistance)
        routeIds == Range(flatRoutes(nearbyStops))
    IN IF Len(nearbyStops) = 0
       THEN [routes |-> slice(KL_BUS_ROUTES, 5),
             currentLocation |-> "Unknown location",
             nearestStop |-> "KL Sentral (default)"]
       ELSE [routes |-> SelectSeq(KL_BUS_ROUTES,
                            LAMBDA route : route.routeId \in routeIds),
             currentLocation |-> KL_BUS_STOPS[nearbyStops[1]].stopName,
             nearestStop |-> KL_BUS_STOPS[nearbyStops[1]].stopName]

\* a faulty getNearbyRoutes, which has no branch for an empty stop list:
\* nearbyStops[0] is undefined, reading its stopName throws and the catch block
\* answers (C28 must tell it from the real one)
getNearbyRoutesNoEmptyBranch(location) ==
    LET nearbyStops == getNearbyBusStops(location, DefaultMaxDistance)
        routeIds == Range(flatRoutes(nearbyStops))
    IN IF Len(nearbyStops) = 0
       THEN caughtFallback
       ELSE [routes |-> slice(SelectSeq(KL_BUS_ROUTES,
                                  LAMBDA route : route.routeId \in routeIds), 6),
             currentLocation |-> KL_BUS_STOPS[nearbyStops[1]].stopName,
             nearestStop |-> KL_BUS_STOPS[nearbyStops[1]].stopName]

\* the try block of getNearbyRoutes, for a location outcome
getNearbyRoutes(location) ==
    LET nearbyStops == getNearbyBusStops(location, DefaultMaxDistance)
        routeIds == Range(flatRoutes(nearbyStops))
    IN IF Len(nearbyStops) = 0
       THEN [routes |-> slice(KL_BUS_ROUTES, 5),
             currentLocation |-> "Unknown location",
             nearestStop |-> "KL Sentral (default)"]
       ELSE [routes |-> slice(SelectSeq(KL_BUS_ROUTES,
                                  LAMBDA route : route.routeId \in routeIds), 6),
             currentLocation |-> KL_BUS_STOPS[nearbyStops[1]].stopName,
             nearestStop |-> KL_BUS_STOPS[nearbyStops[1]].stopName]

\* getNearbyRoutes with its catch block: Throws is the outcome where the try
\* block throws (the provider resolves to an object without coords, and the
\* destructuring in getNearbyBusStops fails)
Throws == "throws"
LocationOutcomes == Locations \cup MoreFixes \cup {NaNCoords, Throws}

getNearbyRoutesCaught(outcome) ==
    IF outcome = Throws
    THEN caughtFallback
    ELSE getNearbyRoutes(outcome)

\* getNearbyRoutes for each location outcome (computed once)
nearbyRoutesAt == [location \in Locations |-> getNearbyRoutes(location)]

\* Array.prototype.find: the first element whose index is in hits (the
\* indices where the predicate is true), or NoRoute
NoRoute == [routeId |-> Null]

find(routes, hits) ==
    IF hits # {}
    THEN routes[CHOOSE i \in hits : \A k \in hits : i <= k]
    ELSE NoRoute

validateRoute(routeId) ==
    find(KL_BUS_ROUTES,
         {i \in DOMAIN KL_BUS_ROUTES :
              toLowerCase(KL_BUS_ROUTES[i].routeId) = toLowerCase(routeId)})

\* the route lookup that opens getBusArrivalTimes; NoRoute stands for the
\* thrown "Route <id> not found"
getBusArrivalTimesRoute(routeId) ==
    find(KL_BUS_ROUTES,
         {i \in DOMAIN KL_BUS_ROUTES : KL_BUS_ROUTES[i].routeId = routeId})

\* Outcomes of the Math.random() calls of getBusArrivalTimes: the number of
\* buses (1..3), the first bus's minutes (2..9, both ends sampled) and the
\* interval drawn for each bus after the first (10..24, sampled; the one drawn
\* for the first bus is multiplied by 0)
BusCounts == 1..3
BaseTimes == {2, 9}
Intervals == {10, 20, 24}

\* a faulty sort, which returns the arrivals in the order they were pushed
\* (C30 must tell it from the real one)
keepPushOrder(arrivals) == arrivals

\* arrivals.sort((a, b) => a.arrivalMinutes - b.arrivalMinutes), stable
sortArrivals(arrivals) ==
    LET before(a, b) ==
            \/ arrivals[a].arrivalMinutes < arrivals[b].arrivalMinutes
            \/ arrivals[a].arrivalMinutes = arrivals[b].arrivalMinutes /\ a < b
        rank(a) == Cardinality({b \in DOMAIN arrivals : before(b, a)}) + 1
    IN [k \in DOMAIN arrivals |->
           arrivals[CHOOSE a \in DOMAIN arrivals : rank(a) = k]]

\* getBusArrivalTimes for given random outcomes; notFound stands for the
\* thrown "Route <id> not found". Bus i (from 0) arrives at
\* baseTime + i * (its interval), intervals[i] being the interval of bus
\* i >= 1; platform, bus number, reliability and direction are random labels
\* that no caller's control flow reads.
getBusArrivalTimes(routeId, numberOfBuses, baseTime, intervals) ==
    LET route == getBusArrivalTimesRoute(routeId)
    IN IF route = NoRoute
       THEN [notFound |-> TRUE, arrivals |-> <<>>]
       ELSE [notFound |-> FALSE,
             arrivals |-> sortArrivals(
                 [k \in 1..numberOfBuses |->
                     [routeId |-> route.routeId,
                      arrivalMinutes |->
                          IF k = 1 THEN baseTime
                          ELSE baseTime + (k - 1) * intervals[k - 1]]])]

\* ---------------------------------------------------- the camera screen
MaxRequests == 3

\* what the vision model's HTTP call can come to: a failure (fetch rejects,
\* the status is not ok, or the body has no candidates), a text that parses
\* as JSON (its buses/obstacles fields as received: an array of strings,
\* possibly with empty ones, or something that is no array), or a text that
\* does not parse, with the lists the fallback text parsing finds in it
Responses ==
    { [kind |-> "failed", busesIsArray |-> FALSE, buses |-> <<>>,
       obstaclesIsArray |-> FALSE, obstacles |-> <<>>],
      [kind |-> "json", busesIsArray |-> TRUE, buses |-> <<"581", "">>,
       obstaclesIsArray |-> TRUE, obstacles |-> <<"pole">>],
      [kind |-> "json", busesIsArray |-> TRUE, buses |-> <<"581", "T581">>,
       obstaclesIsArray |-> FALSE, obstacles |-> <<>>],
      [kind |-> "json", busesIsArray |-> FALSE, buses |-> <<>>,
       obstaclesIsArray |-> TRUE, obstacles |-> <<"">>],
      [kind |-> "text", busesIsArray |-> TRUE, buses |-> <<>>,
       obstaclesIsArray |-> TRUE, obstacles |-> <<"pole", "step">>] }

\* analyzeImage for a response: threw, or the analysis with cleaned lists
analyzeImage(response) ==
    CASE response.kind = "failed" ->
             [threw |-> TRUE, buses |-> <<>>, obstacles |-> <<>>]
      [] response.kind = "json" ->
             [threw |-> FALSE,
              buses |-> IF response.busesIsArray
                        THEN SelectSeq(response.buses, LAMBDA bus : bus # "")
                        ELSE <<>>,
              obstacles |-> IF response.obstaclesIsArray
                            THEN SelectSeq(response.obstacles, LAMBDA obs : obs # "")
                            ELSE <<>>]
      [] response.kind = "text" ->
             [threw |-> FALSE, buses |-> response.buses,
              obstacles |-> response.obstacles]

\* the announcement captureAndAnalyze builds, as the sequence of its parts
announcementOf(analysis) ==
    LET buses == IF Len(analysis.buses) > 0
                 THEN <<"Buses detected: ">> \o analysis.buses \o <<". ">>
                 ELSE <<>>
        obstacles == IF Len(analysis.obstacles) > 0
                     THEN <<"Obstacles found: ">> \o analysis.obstacles \o <<". ">>
                     ELSE <<>>
    IN IF buses \o obstacles = <<>>
       THEN <<"No buses or obstacles detected in this image.">>
       ELSE buses \o obstacles

errorMsg == <<"Error analyzing image. Please try again.">>

NoRunYet == [stage |-> "none", stored |-> 0]

\* a faulty captureAndAnalyze, which does not look at isAnalyzing (C35 must
\* tell it from the real one)
captureAndAnalyzeUnguarded(cam) ==
    IF cam.permission # "granted"
    THEN cam
    ELSE [cam EXCEPT !.isAnalyzing = TRUE, !.rendered = TRUE,
                     !.started = @ + 1,
                     !.run[cam.started + 1].stage = "capturing"]

\* captureAndAnalyze up to its first await: cameraRef.current is set while the
\* CameraView is mounted, which is while the permission is granted; the
\* handler reads the isAnalyzing of the render it belongs to; the update it
\* makes inside the press event is rendered before the next event
captureAndAnalyze(cam) ==
    IF cam.permission # "granted" \/ cam.rendered
    THEN cam
    ELSE [cam EXCEPT !.isAnalyzing = TRUE, !.rendered = TRUE,
                     !.started = @ + 1,
                     !.run[cam.started + 1].stage = "capturing"]

\* the rest of a run from the point where lastAnalysis is set: the result or
\* the catch block's message, then the finally block
finishRun(cam, r, text) ==
    [cam EXCEPT !.lastAnalysis = text,
                !.run[r].stored = @ + 1,
                !.run[r].stage = "done",
                !.isAnalyzing = FALSE]

\* ------------------------------------------------------------ the state
\* setTimeout delays, in milliseconds
ManualPromptDelay == 1000
ManualTimeout == 15000

\* confidence is kept in hundredths
SimulatedConfidence == 90

Sessions == 1..MaxSessions
\* a session has at most one timer pending: its prompt timer, then its timeout
TimerSlots == 1..MaxSessions
NoCallback == 0

VARIABLES
    mediaDevices,         \* navigator.mediaDevices exists
    recognizer,           \* the platform SpeechRecognition object:
                          \*   "absent" | "idle" | "running" | "stopping" | "ending"
    svc,                  \* the VoiceRecognitionService singleton's fields
    manualVoiceCallback,  \* (global as any).manualVoiceCallback
    ctorRequest,          \* the constructor's getUserMedia call is in flight
    phase,                \* per startListening call: where it is suspended
    timers,               \* pending setTimeout callbacks, in creation order
    opened,               \* number of startListening calls made so far
    screen,               \* React state of the home screen
    activeSet,            \* nearbyRoutes captured by each session's handler
    invoked,              \* how often each session's continuation has run
    lastRun,              \* the most recent run of the voice result handler
    timedOut,             \* sessions whose 15 s timeout fired while armed
    closed,               \* sessions that were open when close() was called
    cancelled,            \* sessions closed before their callback was stored
    errored,              \* sessions that were listening at an error event
    arrivalLookup,        \* how getBusArrivalTimes answered the most recent
                          \*   selectRoute: "none" | "found" | "notFound"
    camera,               \* the camera screen: its React state, what the
                          \*   rendered handler sees, and its runs
    extractedRoute,       \* extractRouteFromVoice(text) for each text of Texts,
                          \*   computed once (the function is pure)
    call,                 \* a direct call of a catalog function: its arguments
    ret                   \* ... and what it returned

vars == <<mediaDevices, recognizer, svc, manualVoiceCallback, ctorRequest,
          phase, timers, opened, screen, activeSet, invoked, lastRun,
          timedOut, closed, cancelled, errored, arrivalLookup, camera,
          extractedRoute, call, ret>>

NoRun == [session |-> 0, text |-> <<>>, confidence |-> 0, routeId |-> Null,
          matched |-> NoRoute, reprompt |-> Null]

NoCall == [fn |-> "none", routeId |-> Null, location |-> NoFix]

Init ==
    /\ mediaDevices \in BOOLEAN
    /\ recognizer \in {"absent", "idle"}
    /\ svc = [isListening |-> FALSE, callbacks |-> <<>>, hasPermission |-> FALSE]
    /\ manualVoiceCallback = NoCallback
    /\ ctorRequest = mediaDevices
    /\ phase = [s \in Sessions |-> "unopened"]
    /\ timers = <<>>
    /\ opened = 0
    /\ screen = [showQuickActions |-> FALSE, lastTap |-> 0,
                 nearbyRoutes |-> <<>>, currentLocation |-> "Loading...",
                 isLoadingRoutes |-> TRUE, isListening |-> FALSE]
    /\ activeSet = [s \in Sessions |-> <<>>]
    /\ invoked = [s \in Sessions |-> 0]
    /\ lastRun = NoRun
    /\ timedOut = {}
    /\ closed = {}
    /\ cancelled = {}
    /\ errored = {}
    /\ arrivalLookup = "none"
    /\ camera = [permission |-> "loading", isAnalyzing |-> FALSE,
                 rendered |-> FALSE, lastAnalysis |-> <<>>,
                 requests |-> 0, started |-> 0,
                 run |-> [r \in 1..MaxRequests |-> NoRunYet]]
    /\ extractedRoute = [text \in Texts |-> extractRouteFromVoice(text)]
    /\ call = NoCall
    /\ ret = NoRoute

\* ------------------------------------------------- the service's methods
\* a faulty stopListening, which forgets to empty the callbacks list (C10
\* must tell it from the real one)
stopListeningKeepsCallbacks(v) == [v EXCEPT !.isListening = FALSE]

\* stopListening(): the instance fields, and the recognizer it stops
stopListening(v) == [v EXCEPT !.isListening = FALSE, !.callbacks = <<>>]

\* the states of the platform recognizer object ("absent": none was created)
RecognizerStates == {"absent", "idle", "running", "stopping", "ending"}

\* a faulty stop, without the if (this.recognition) guard: calling stop() on
\* the missing recognizer throws (C20 must tell it from the real one)
recognitionStopUnguarded(r) ==
    CASE r = "running" -> "stopping"
      [] r = "absent" -> "threw"
      [] OTHER -> r

\* if (this.recognition) try { this.recognition.stop() } catch {}
recognitionStop(r) == IF r = "running" THEN "stopping" ELSE r

\* promptForManualInput(callback): the 1 s timer it sets
promptForManualInput(tm, cb) ==
    Append(tm, [kind |-> "prompt", cb |-> cb, ms |-> ManualPromptDelay])

\* a faulty startListening, which does not look at what checkPermission
\* returned before it starts the recognizer (C31 must tell it from the real
\* one)
startListeningUnpermitted(v, r, tm, cb, hasPerm) ==
    IF v.isListening \/ r = "absent"
    THEN [svc |-> v, recognizer |-> r, timers |-> promptForManualInput(tm, cb)]
    ELSE LET w == [v EXCEPT !.isListening = TRUE, !.callbacks = <<cb>>]
         IN IF r = "idle"
            THEN [svc |-> w, recognizer |-> "running", timers |-> tm]
            ELSE [svc |-> w, recognizer |-> r,
                  timers |-> promptForManualInput(tm, cb)]

\* startListening(callback) from the point where checkPermission has returned
\* hasPerm: the new instance fields, recognizer state and timers
startListeningResumed(v, r, tm, cb, hasPerm) ==
    IF ~hasPerm
    THEN [svc |-> v, recognizer |-> r, timers |-> promptForManualInput(tm, cb)]
    ELSE IF v.isListening \/ r = "absent"
    THEN [svc |-> v, recognizer |-> r, timers |-> promptForManualInput(tm, cb)]
    ELSE LET w == [v EXCEPT !.isListening = TRUE, !.callbacks = <<cb>>]
         IN IF r = "idle"
            THEN [svc |-> w, recognizer |-> "running", timers |-> tm]
            \* recognition.start() throws while a recognition is in progress
            ELSE [svc |-> w, recognizer |-> r,
                  timers |-> promptForManualInput(tm, cb)]

\* ------------------------------------------------- the screen's handlers
\* a faulty selectRoute, which hands the identifier to the arrival lookup in
\* lower case (C34 must tell it from the real one)
selectRouteLowerCased(st, route) ==
    [st EXCEPT !.screen.showQuickActions = FALSE,
               !.arrivalLookup =
                   IF getBusArrivalTimesRoute(toLowerCase(route.routeId)) = NoRoute
                   THEN "notFound" ELSE "found"]

\* selectRoute(route): hides the quick actions and asks getBusArrivalTimes for
\* route.routeId; a thrown not-found lands in its catch block (the
\* announcements leave the screen's state alone)
selectRoute(st, route) ==
    [st EXCEPT !.screen.showQuickActions = FALSE,
               !.arrivalLookup =
                   IF getBusArrivalTimesRoute(route.routeId) = NoRoute
                   THEN "notFound" ELSE "found"]

\* a faulty matcher, which looks the candidate up in the whole catalog (C5
\* must tell it from the real one)
matchRouteInCatalog(routes, routeId) ==
    IF routeId # Null THEN validateRoute(routeId) ELSE NoRoute

\* a faulty matcher, which accepts a route whose identifier is part of the
\* candidate (C6 must tell it from the real one)
matchRoutePartial(routes, routeId) ==
    IF routeId # Null
    THEN find(routes, {i \in DOMAIN routes :
                  includes(toLowerCase(routeId), toLowerCase(routes[i].routeId))})
    ELSE NoRoute

\* the handler's matcher: if (routeId) nearbyRoutes.find(...), else nothing
matchRoute(routes, routeId) ==
    IF routeId # Null
    THEN find(routes, {i \in DOMAIN routes :
                  toLowerCase(routes[i].routeId) = toLowerCase(routeId)})
    ELSE NoRoute

\* a faulty handler, which hands the first nearby route to selectRoute when
\* nothing matched (C21 must tell it from the real one)
onVoiceResultSelectsAnyway(st, s, routes, result) ==
    LET routeId == extractedRoute[result.text]
        found == matchRoute(routes, routeId)
        matchedRoute == IF found # NoRoute \/ routes = <<>> THEN found
                        ELSE routes[1]
        run == [session |-> s, text |-> result.text,
                confidence |-> result.confidence, routeId |-> routeId,
                matched |-> matchedRoute, reprompt |-> Null]
        counted == [st EXCEPT !.invoked[s] = @ + 1]
    IN selectRoute([counted EXCEPT !.screen.isListening = FALSE,
                                   !.lastRun = run],
                   matchedRoute)

\* the continuation passed to startListening by startVoiceListening, for the
\* session s whose closure captured nearbyRoutes = routes
onVoiceResult(st, s, routes, result) ==
    LET routeId == extractedRoute[result.text]
        matchedRoute == matchRoute(routes, routeId)
        run == [session |-> s, text |-> result.text,
                confidence |-> result.confidence, routeId |-> routeId,
                matched |-> matchedRoute, reprompt |-> Null]
        counted == [st EXCEPT !.invoked[s] = @ + 1]
    IN IF matchedRoute # NoRoute
       THEN selectRoute([counted EXCEPT !.screen.isListening = FALSE,
                                        !.lastRun = run],
                        matchedRoute)
       ELSE [counted EXCEPT !.lastRun =
                [run EXCEPT !.reprompt =
                    IF routeId # Null THEN routeId ELSE result.text]]

\* a faulty delivery, which stops the channel before it walks the callbacks
\* list and so walks the emptied list (C18 must tell it from the real one)
forEachCallbackAfterStop(st, cbs, result) == st

\* callbacks.forEach(callback => callback(result))
RECURSIVE forEachCallback(_, _, _)
forEachCallback(st, cbs, result) ==
    IF cbs = <<>> THEN st
    ELSE forEachCallback(onVoiceResult(st, Head(cbs), activeSet[Head(cbs)], result),
                         Tail(cbs), result)

AppState == [screen |-> screen, invoked |-> invoked, lastRun |-> lastRun,
             arrivalLookup |-> arrivalLookup]

SetAppState(st) ==
    /\ screen' = st.screen
    /\ invoked' = st.invoked
    /\ lastRun' = st.lastRun
    /\ arrivalLookup' = st.arrivalLookup

\* ------------------------------------------------------------- helpers
RemoveAt(q, i) == SubSeq(q, 1, i - 1) \o SubSeq(q, i + 1, Len(q))

\* Timer i may fire next: every timer created before it with a delay no longer
\* than its own has an earlier deadline and has fired already.  (With fewer
\* than ManualTimeout \div ManualPromptDelay sessions this order is exactly
\* the one the clock allows.)
Due(i) ==
    /\ i \in DOMAIN timers
    /\ \A k \in 1..(i-1) : timers[k].ms > timers[i].ms

PromptPending(s) ==
    \E i \in DOMAIN timers : timers[i].kind = "prompt" /\ timers[i].cb = s

\* the session asked for the manual fallback (its timers or the global slot)
FallbackRequested(s) ==
    \/ \E i \in DOMAIN timers : timers[i].cb = s
    \/ manualVoiceCallback = s

\* the spec's states of a session, read off the fields
AwaitingPermission(s) == phase[s] = "awaitingPermission"
Listening(s) ==
    /\ svc.isListening
    /\ s \in Range(svc.callbacks)
    /\ ~FallbackRequested(s)
ManualFallbackArmed(s) == manualVoiceCallback = s

\* ------------------------------------------------------------- actions
\* the constructor's requestMicrophonePermission settles
ConstructorPermissionResult(granted) ==
    /\ ctorRequest
    /\ ctorRequest' = FALSE
    /\ svc' = [svc EXCEPT !.hasPermission = granted]
    /\ UNCHANGED <<camera, extractedRoute, call, ret, arrivalLookup>>
    /\ UNCHANGED <<mediaDevices, recognizer, manualVoiceCallback, phase, timers,
                   opened, screen, activeSet, invoked, lastRun,
                   timedOut, closed, cancelled, errored>>

\* loadNearbyRoutes (started on mount) completes for a location outcome
RoutesLoaded(location) ==
    /\ screen.isLoadingRoutes
    /\ screen' = [screen EXCEPT
                    !.nearbyRoutes = nearbyRoutesAt[location].routes,
                    !.currentLocation = nearbyRoutesAt[location].nearestStop,
                    !.isLoadingRoutes = FALSE]
    /\ UNCHANGED <<camera, extractedRoute, call, ret, arrivalLookup>>
    /\ UNCHANGED <<mediaDevices, recognizer, svc, manualVoiceCallback,
                   ctorRequest, phase, timers, opened, activeSet, invoked,
                   lastRun, timedOut, closed, cancelled, errored>>

\* a faulty handleScreenTap, which opens the voice channel on a double tap
\* without looking at isLoadingRoutes or nearbyRoutes (C22 must tell it from
\* the real one)
HandleScreenTapUnchecked(quick) ==
    /\ ~screen.showQuickActions
    /\ IF ~(quick /\ screen.lastTap # 0)
       THEN /\ screen' = [screen EXCEPT !.lastTap = 1]
            /\ UNCHANGED <<svc, recognizer, timers, phase, opened, activeSet>>
       ELSE LET s == opened + 1
                denied == [svc EXCEPT !.hasPermission = FALSE]
                res == IF svc.hasPermission
                       THEN startListeningResumed(svc, recognizer, timers, s, TRUE)
                       ELSE startListeningResumed(denied, recognizer, timers, s, FALSE)
            IN /\ opened < MaxSessions
               /\ opened' = s
               /\ screen' = [screen EXCEPT !.showQuickActions = TRUE,
                                           !.isListening = TRUE,
                                           !.lastTap = 1]
               /\ activeSet' = [activeSet EXCEPT ![s] = screen.nearbyRoutes]
               /\ IF ~svc.hasPermission /\ mediaDevices
                  THEN /\ phase' = [phase EXCEPT ![s] = "awaitingPermission"]
                       /\ UNCHANGED <<svc, recognizer, timers>>
                  ELSE /\ phase' = [phase EXCEPT ![s] = "resumed"]
                       /\ svc' = res.svc
                       /\ recognizer' = res.recognizer
                       /\ timers' = res.timers
    /\ UNCHANGED <<camera, extractedRoute, call, ret, arrivalLookup>>
    /\ UNCHANGED <<mediaDevices, manualVoiceCallback, ctorRequest, invoked,
                   lastRun, timedOut, closed, cancelled, errored>>

\* handleScreenTap, with startVoiceListening and startListening up to the
\* point where startListening is suspended on getUserMedia or has returned
\* quick: Date.now() is less than 300 ms after the previous tap (lastTap is
\* 0 until the first tap, and 1 stands for any later timestamp)
HandleScreenTap(quick) ==
    /\ ~screen.showQuickActions
    /\ IF ~(quick /\ screen.lastTap # 0)
       THEN /\ screen' = [screen EXCEPT !.lastTap = 1]
            /\ UNCHANGED <<svc, recognizer, timers, phase, opened, activeSet>>
       ELSE IF screen.isLoadingRoutes
       THEN UNCHANGED <<screen, svc, recognizer, timers, phase, opened, activeSet>>
       ELSE IF Len(screen.nearbyRoutes) = 0
       THEN /\ screen' = [screen EXCEPT !.showQuickActions = TRUE]
            /\ UNCHANGED <<svc, recognizer, timers, phase, opened, activeSet>>
       ELSE LET s == opened + 1
                denied == [svc EXCEPT !.hasPermission = FALSE]
                res == IF svc.hasPermission
                       THEN startListeningResumed(svc, recognizer, timers, s, TRUE)
                       ELSE startListeningResumed(denied, recognizer, timers, s, FALSE)
            IN /\ opened < MaxSessions
               /\ opened' = s
               /\ screen' = [screen EXCEPT !.showQuickActions = TRUE,
                                           !.isListening = TRUE,
                                           !.lastTap = 1]
               /\ activeSet' = [activeSet EXCEPT ![s] = screen.nearbyRoutes]
               /\ IF ~svc.hasPermission /\ mediaDevices
                  THEN /\ phase' = [phase EXCEPT ![s] = "awaitingPermission"]
                       /\ UNCHANGED <<svc, recognizer, timers>>
                  ELSE /\ phase' = [phase EXCEPT ![s] = "resumed"]
                       /\ svc' = res.svc
                       /\ recognizer' = res.recognizer
                       /\ timers' = res.timers
    /\ UNCHANGED <<camera, extractedRoute, call, ret, arrivalLookup>>
    /\ UNCHANGED <<mediaDevices, manualVoiceCallback, ctorRequest, invoked,
                   lastRun, timedOut, closed, cancelled, errored>>

\* getUserMedia settles for the startListening call of session s, and
\* startListening runs to its end
PermissionResult(s, granted) ==
    /\ phase[s] = "awaitingPermission"
    /\ LET res == startListeningResumed([svc EXCEPT !.hasPermission = granted],
                                        recognizer, timers, s, granted)
       IN /\ svc' = res.svc
          /\ recognizer' = res.recognizer
          /\ timers' = res.timers
    /\ phase' = [phase EXCEPT ![s] = "resumed"]
    /\ UNCHANGED <<camera, extractedRoute, call, ret, arrivalLookup>>
    /\ UNCHANGED <<mediaDevices, manualVoiceCallback, ctorRequest, opened,
                   screen, activeSet, invoked, lastRun, timedOut,
                   closed, cancelled, errored>>

\* the 1 s timer of promptForManualInput fires
ManualPromptFires(i) ==
    /\ Due(i)
    /\ timers[i].kind = "prompt"
    /\ manualVoiceCallback' = timers[i].cb
    /\ timers' = Append(RemoveAt(timers, i),
                        [kind |-> "timeout", cb |-> timers[i].cb,
                         ms |-> ManualTimeout])
    /\ UNCHANGED <<camera, extractedRoute, call, ret, arrivalLookup>>
    /\ UNCHANGED <<mediaDevices, recognizer, svc, ctorRequest, phase, opened,
                   screen, activeSet, invoked, lastRun, timedOut,
                   closed, cancelled, errored>>

\* the 15 s timer set by promptForManualInput fires
ManualTimeoutFires(i) ==
    /\ Due(i)
    /\ timers[i].kind = "timeout"
    /\ svc' = stopListening(svc)
    /\ recognizer' = recognitionStop(recognizer)
    /\ timers' = RemoveAt(timers, i)
    /\ timedOut' = IF manualVoiceCallback = timers[i].cb
                   THEN timedOut \cup {timers[i].cb} ELSE timedOut
    /\ UNCHANGED <<camera, extractedRoute, call, ret, arrivalLookup>>
    /\ UNCHANGED <<mediaDevices, manualVoiceCallback, ctorRequest, phase,
                   opened, screen, activeSet, invoked, lastRun,
                   closed, cancelled, errored>>

\* recognition.onresult: the recognizer delivers its one final result
RecognitionResult(text, confidence) ==
    /\ recognizer \in {"running", "stopping"}
    /\ SetAppState(forEachCallback(AppState, svc.callbacks,
                       [text |-> text, confidence |-> confidence]))
    /\ svc' = stopListening(svc)
    /\ recognizer' = "ending"
    /\ UNCHANGED <<camera, extractedRoute, call, ret>>
    /\ UNCHANGED <<mediaDevices, manualVoiceCallback, ctorRequest, phase,
                   timers, opened, activeSet, timedOut, closed, cancelled,
                   errored>>

\* recognition.onerror
RecognitionError ==
    /\ recognizer \in {"running", "stopping"}
    /\ svc' = stopListening(svc)
    /\ recognizer' = "ending"
    /\ errored' = errored \cup {s \in Sessions : Listening(s)}
    /\ UNCHANGED <<camera, extractedRoute, call, ret, arrivalLookup>>
    /\ UNCHANGED <<mediaDevices, manualVoiceCallback, ctorRequest, phase,
                   timers, opened, screen, activeSet, invoked, lastRun,
                   timedOut, closed, cancelled>>

\* recognition.onend
RecognitionEnd ==
    /\ recognizer \in {"running", "stopping", "ending"}
    /\ svc' = [svc EXCEPT !.isListening = FALSE]
    /\ recognizer' = "idle"
    /\ UNCHANGED <<camera, extractedRoute, call, ret, arrivalLookup>>
    /\ UNCHANGED <<mediaDevices, manualVoiceCallback, ctorRequest, phase,
                   timers, opened, screen, activeSet, invoked, lastRun,
                   timedOut, closed, cancelled, errored>>

\* the continuations simulateVoiceInput invokes: the stored manual callback
\* if there is one, else every element of the callbacks list
simulateCallbacks ==
    IF manualVoiceCallback # NoCallback
    THEN <<manualVoiceCallback>>
    ELSE svc.callbacks

\* simulateVoiceInput(text), reached through the global simulateVoice
SimulateVoiceInput(text) ==
    /\ LET result == [text |-> text, confidence |-> SimulatedConfidence]
       IN SetAppState(forEachCallback(AppState, simulateCallbacks, result))
    /\ manualVoiceCallback' = NoCallback
    /\ svc' = stopListening(svc)
    /\ recognizer' = recognitionStop(recognizer)
    /\ UNCHANGED <<camera, extractedRoute, call, ret>>
    /\ UNCHANGED <<mediaDevices, ctorRequest, phase, timers, opened,
                   activeSet, timedOut, closed, cancelled, errored>>

\* closeQuickActions, with stopVoiceListening and stopListening
CloseQuickActions ==
    /\ screen.showQuickActions
    /\ screen' = [screen EXCEPT !.showQuickActions = FALSE,
                                !.isListening = FALSE]
    /\ svc' = stopListening(svc)
    /\ recognizer' = recognitionStop(recognizer)
    /\ closed' = closed \cup
           {s \in Sessions : Listening(s) \/ ManualFallbackArmed(s)}
    /\ cancelled' = cancelled \cup
           {s \in Sessions : AwaitingPermission(s) \/ PromptPending(s)}
    /\ UNCHANGED <<camera, extractedRoute, call, ret, arrivalLookup>>
    /\ UNCHANGED <<mediaDevices, manualVoiceCallback, ctorRequest, phase,
                   timers, opened, activeSet, invoked, lastRun,
                   timedOut, errored>>

\* a route button of the quick actions list is pressed
TapRoute(i) ==
    /\ screen.showQuickActions
    /\ ~screen.isLoadingRoutes
    /\ i \in DOMAIN screen.nearbyRoutes
    /\ SetAppState(selectRoute(AppState, screen.nearbyRoutes[i]))
    /\ UNCHANGED <<camera, extractedRoute, call, ret>>
    /\ UNCHANGED <<mediaDevices, recognizer, svc, manualVoiceCallback,
                   ctorRequest, phase, timers, opened, activeSet, timedOut,
                   closed, cancelled, errored>>

Next ==
    \/ \E granted \in BOOLEAN : ConstructorPermissionResult(granted)
    \/ \E location \in Locations : RoutesLoaded(location)
    \/ \E quick \in BOOLEAN : HandleScreenTap(quick)
    \/ \E s \in Sessions, granted \in BOOLEAN : PermissionResult(s, granted)
    \/ \E i \in TimerSlots : ManualPromptFires(i)
    \/ \E i \in TimerSlots : ManualTimeoutFires(i)
    \/ \E text \in Texts, confidence \in Confidences :
           RecognitionResult(text, confidence)
    \/ RecognitionError
    \/ RecognitionEnd
    \/ \E text \in Texts : SimulateVoiceInput(text)
    \/ CloseQuickActions
    \/ \E i \in 1..Len(KL_BUS_ROUTES) : TapRoute(i)

Spec == Init /\ [][Next]_vars

\* Scheduling: a pending timer fires, a pending getUserMedia promise settles,
\* the route load completes, and a recognition that was started ends (onend).
\* Taps, closes, simulated inputs and recognizer results or errors are not
\* bound to happen.
Fairness ==
    /\ WF_vars(\E i \in TimerSlots : ManualPromptFires(i))
    /\ WF_vars(\E i \in TimerSlots : ManualTimeoutFires(i))
    /\ WF_vars(\E s \in Sessions, granted \in BOOLEAN : PermissionResult(s, granted))
    /\ WF_vars(\E granted \in BOOLEAN : ConstructorPermissionResult(granted))
    /\ WF_vars(\E location \in Locations : RoutesLoaded(location))
    /\ WF_vars(RecognitionEnd)

SpecFair == Spec /\ Fairness

\* ------------------------------------------- direct calls of the catalog
\* route identifiers in the catalog's spelling, in lower case, and unknown ones
RouteIdInputs ==
    { <<"5","8","1">>, <<"T","5","8","1">>, <<"t","5","8","1">>,
      <<"U","8","4">>, <<"u","8","4">>, <<"B","1","0","1">>, <<"b","1","0","1">>,
      <<"4","0","0">>, <<"U","8","3">>, <<"u","8","3">>, <<"5","0","0">>,
      <<"T","5","0","0">>, <<"t","5","0","0">>,
      <<"9","9","9">>, <<"T","4","0","0">>, <<"t","4","0","0">> }

appVars == <<mediaDevices, recognizer, svc, manualVoiceCallback, ctorRequest,
             phase, timers, opened, screen, activeSet, invoked, lastRun,
             timedOut, closed, cancelled, errored, arrivalLookup, camera,
             extractedRoute>>

CallValidateRoute(routeId) ==
    /\ call' = [fn |-> "validateRoute", routeId |-> routeId, location |-> NoFix]
    /\ ret' = validateRoute(routeId)
    /\ UNCHANGED appVars

CallGetBusArrivalTimes(routeId, numberOfBuses, baseTime, intervals) ==
    /\ call' = [fn |-> "getBusArrivalTimes", routeId |-> routeId,
                location |-> NoFix, numberOfBuses |-> numberOfBuses,
                baseTime |-> baseTime, intervals |-> intervals]
    /\ ret' = getBusArrivalTimes(routeId, numberOfBuses, baseTime, intervals)
    /\ UNCHANGED appVars

\* radii handed to getNearbyBusStops
Radii == {0, DefaultMaxDistance, 4000, 15000}

CallGetNearbyBusStops(location, maxDistance) ==
    /\ call' = [fn |-> "getNearbyBusStops", routeId |-> Null,
                location |-> location, maxDistance |-> maxDistance]
    /\ ret' = [stops |-> getNearbyBusStops(location, maxDistance)]
    /\ UNCHANGED appVars

\* the handler's matcher against the routes near a location
CallMatchRoute(routeId, location) ==
    /\ call' = [fn |-> "matchRoute", routeId |-> routeId, location |-> location]
    /\ ret' = matchRoute(nearbyRoutesAt[location].routes, routeId)
    /\ UNCHANGED appVars

CallGetNearbyRoutes(outcome) ==
    /\ call' = [fn |-> "getNearbyRoutes", routeId |-> Null, location |-> outcome]
    /\ ret' = getNearbyRoutesCaught(outcome)
    /\ UNCHANGED appVars

\* texts handed to extractRouteFromVoice: empty, blank, without a route, spoken
\* numbers, prefixed and plain numbers, digits glued to other characters
ExtractInputs ==
    { <<>>, <<" ">>, <<" "," "," ">>,
      <<"r","a","n","d","o","m"," ","t","e","x","t">>,
      <<"f","i","v","e"," ","e","i","g","h","t"," ","o","n","e">>,
      <<"F","i","v","e"," ","E","i","g","h","t"," ">>,
      <<"t","5","8","1">>,
      <<" ","T"," ","5","8","1"," ">>,
      <<"b","u","s"," ","u","8","4"," ","x">>,
      <<"5","8","1","a","2">>,
      <<"x","5","8","1">>,
      <<"e","i","g","h","t","y"," ","f","o","u","r">>,
      <<"o","n","e"," ","z","e","r","o"," ","o","n","e">>,
      <<"9","9","9">>,
      <<"5","8","1"," ","o","r"," ","e","i","g","h","t"," ","f","o","u","r">>,
      <<"t","5","8","1"," ","o","r"," ","4","0","0">>,
      <<"u","8","4"," ","t","5","8","1">>,
      <<"b"," ","1","0","1"," ","u","8","4">> }

\* every catalog identifier as text, as the catalog spells it and in lower
\* case (an identifier has at most one letter)
RouteIdSpellings ==
    UNION {{KL_BUS_ROUTES[i].routeId, toLowerCase(KL_BUS_ROUTES[i].routeId)} :
               i \in DOMAIN KL_BUS_ROUTES}

CallExtractRoute(text) ==
    /\ call' = [fn |-> "extractRouteFromVoice", routeId |-> Null,
                location |-> NoFix, text |-> text]
    /\ ret' = extractRouteFromVoice(text)
    /\ UNCHANGED appVars

CatalogNext ==
    \/ \E routeId \in RouteIdInputs : CallValidateRoute(routeId)
    \/ \E routeId \in RouteIdInputs, numberOfBuses \in BusCounts,
          baseTime \in BaseTimes :
           \E intervals \in [1..(numberOfBuses - 1) -> Intervals] :
               CallGetBusArrivalTimes(routeId, numberOfBuses, baseTime, intervals)
    \/ \E location \in LocationOutcomes \ {Throws}, maxDistance \in Radii :
           CallGetNearbyBusStops(location, maxDistance)
    \/ \E routeId \in RouteIdInputs, location \in Locations :
           CallMatchRoute(routeId, location)
    \/ \E outcome \in LocationOutcomes : CallGetNearbyRoutes(outcome)
    \/ \E text \in ExtractInputs \cup RouteIdSpellings : CallExtractRoute(text)

\* the catalog functions read none of the application's variables: one
\* initial state of the application is enough
CatalogInit == Init /\ mediaDevices /\ recognizer = "idle"

SpecCatalog == CatalogInit /\ [][CatalogNext]_vars

\* ------------------------------------------- the camera screen's steps
nonCameraVars == <<mediaDevices, recognizer, svc, manualVoiceCallback,
                   ctorRequest, phase, timers, opened, screen, activeSet,
                   invoked, lastRun, timedOut, closed, cancelled, errored,
                   arrivalLookup, extractedRoute, call, ret>>

\* useCameraPermissions delivers the permission, or the Grant Permission
\* button's request is answered
CameraPermissionSettles(granted) ==
    /\ camera.permission \in {"loading", "denied"}
    /\ camera' = [camera EXCEPT !.permission =
                      IF granted THEN "granted" ELSE "denied"]
    /\ UNCHANGED nonCameraVars

\* captureAndAnalyze is called (the capture button, whose disabled prop reads
\* the same isAnalyzing as the handler)
CaptureRequest ==
    /\ camera.requests < MaxRequests
    /\ camera' = [captureAndAnalyze(camera) EXCEPT !.requests = @ + 1]
    /\ UNCHANGED nonCameraVars

\* takePictureAsync settles for run r: with base64 data, without, or rejected
TakePictureSettles(r, outcome) ==
    /\ camera.run[r].stage = "capturing"
    /\ camera' = IF outcome = "base64"
                 THEN [camera EXCEPT !.run[r].stage = "analyzing"]
                 ELSE finishRun(camera, r, errorMsg)
    /\ UNCHANGED nonCameraVars

\* analyzeImage settles for run r
AnalyzeImageSettles(r, response) ==
    /\ camera.run[r].stage = "analyzing"
    /\ \A analysis \in {analyzeImage(response)} :
           camera' = IF analysis.threw
                     THEN finishRun(camera, r, errorMsg)
                     ELSE finishRun(camera, r, announcementOf(analysis))
    /\ UNCHANGED nonCameraVars

\* React renders the screen after the update made in the finally block
CameraRender ==
    /\ camera.rendered # camera.isAnalyzing
    /\ camera' = [camera EXCEPT !.rendered = camera.isAnalyzing]
    /\ UNCHANGED nonCameraVars

CameraNext ==
    \/ \E granted \in BOOLEAN : CameraPermissionSettles(granted)
    \/ CaptureRequest
    \/ \E r \in 1..MaxRequests, outcome \in {"base64", "noBase64", "rejected"} :
           TakePictureSettles(r, outcome)
    \/ \E r \in 1..MaxRequests, response \in Responses :
           AnalyzeImageSettles(r, response)
    \/ CameraRender

\* awaited promises settle and scheduled renders happen
CameraFairness ==
    /\ WF_vars(\E r \in 1..MaxRequests, outcome \in {"base64", "noBase64", "rejected"} :
                   TakePictureSettles(r, outcome))
    /\ WF_vars(\E r \in 1..MaxRequests, response \in Responses :
                   AnalyzeImageSettles(r, response))
    /\ WF_vars(CameraRender)

SpecCamera == CatalogInit /\ [][CameraNext]_vars /\ CameraFairness

\* ================================================================ claims
Pending(s) == s \in Range(svc.callbacks) \/ manualVoiceCallback = s

SameIgnoringCase(a, b) == toLowerCase(a) = toLowerCase(b)

\* C1: the continuation passed to one startListening call is invoked at most
\* once, whatever the sequence of opens, closes, simulated inputs, recognizer
\* events, permission outcomes and timer firings.
C1_InvokedAtMostOnce == \A s \in Sessions : invoked[s] <= 1

\* C2: once the 15 s timeout of an armed manual-fallback session has fired,
\* that session's continuation is never invoked: a late simulateVoiceInput
\* invokes nothing.
C2_NoInvocationAfterTimeout ==
    [][\A s \in timedOut : invoked'[s] = invoked[s]]_vars

\* C3: after stopListening() was called on a session that was Listening or
\* ManualFallbackArmed, nothing invokes that session's continuation.
C3_NoInvocationAfterClose ==
    [][\A s \in closed : invoked'[s] = invoked[s]]_vars

\* C4: a session closed while startListening was suspended on the permission
\* request, or during the 1 s delay before its callback is stored, never
\* gets its continuation registered (callbacks list or manual slot).
C4_CancelledStaysIdle == \A s \in cancelled : ~Pending(s)

\* C5: a route the voice handler confirms and hands to selectRoute is a member
\* of the nearby route set captured by that voice session.
C5_ConfirmedInActiveSet ==
    (lastRun.session # 0 /\ lastRun.matched # NoRoute) =>
        lastRun.matched \in Range(activeSet[lastRun.session])

C5_Witness ==
    /\ lastRun.session # 0
    /\ lastRun.matched # NoRoute
    /\ Range(activeSet[lastRun.session]) # Range(KL_BUS_ROUTES)

\* C6: the handler confirms a route iff a candidate was extracted and a route
\* of the active set has that identifier ignoring case (and then it is that
\* route); otherwise nothing is confirmed and the re-prompt names the
\* candidate, or the raw text when there is no candidate.
C6_MatcherExact ==
    lastRun.session # 0 =>
      \A candidate \in {extractRouteFromVoice(lastRun.text)} :
        LET routes == Range(activeSet[lastRun.session])
            hits == {r \in routes : /\ candidate # Null
                                    /\ SameIgnoringCase(r.routeId, candidate)}
        IN /\ (lastRun.matched # NoRoute) = (hits # {})
           /\ lastRun.matched # NoRoute => lastRun.matched \in hits
           /\ lastRun.matched = NoRoute =>
                  lastRun.reprompt =
                      IF candidate # Null THEN candidate ELSE lastRun.text
           /\ (lastRun.text = <<"9","9","9">>) =>
                  /\ lastRun.matched = NoRoute
                  /\ lastRun.reprompt = <<"9","9","9">>

\* the spec's scenario: "tea five eight one" gives 581, the set lacks 581
C6_Witness ==
    /\ lastRun.session # 0
    /\ lastRun.text = <<"t","e","a"," ","f","i","v","e"," ","e","i","g","h","t",
                        " ","o","n","e">>
    /\ \A r \in Range(activeSet[lastRun.session]) : r.routeId # <<"5","8","1">>
    /\ lastRun.matched = NoRoute
    /\ lastRun.reprompt = <<"5","8","1">>

\* C7: identifiers that differ only in letter case are the same route for the
\* voice matcher, validateRoute and the arrival lookup: each returns for one
\* spelling what it returns for the other.
C7_CaseInsensitiveEverywhere ==
    \A other \in RouteIdInputs :
        SameIgnoringCase(other, call.routeId) =>
            CASE call.fn = "validateRoute" -> validateRoute(other) = ret
              [] call.fn = "getBusArrivalTimes" ->
                     getBusArrivalTimes(other, call.numberOfBuses,
                                        call.baseTime, call.intervals) = ret
              [] call.fn = "matchRoute" ->
                     matchRoute(nearbyRoutesAt[call.location].routes, other) = ret
              [] OTHER -> TRUE

\* C8: at most one continuation is pending, the callbacks list and the manual
\* slot counted together (a continuation held in both counts once).
C8_AtMostOnePending == Cardinality({s \in Sessions : Pending(s)}) <= 1

\* C9: no step replaces the registered continuation of a session that was
\* never closed by that of a later startListening call while leaving the
\* earlier one uninvoked.
OverwritesPending ==
    \E s \in Sessions :
        /\ Pending(s)
        /\ s \notin closed \cup cancelled
        /\ invoked'[s] = invoked[s]
        /\ \/ manualVoiceCallback = s /\ manualVoiceCallback' \notin {s, NoCallback}
           \/ /\ s \in Range(svc.callbacks)
              /\ svc'.callbacks # <<>>
              /\ s \notin Range(svc'.callbacks)

C9_OpenNeverDropsPending == [][~OverwritesPending]_vars

ManualFallbackOpen(s) ==
    /\ phase[s] = "resumed"
    /\ ~svc.hasPermission \/ recognizer = "absent"
    /\ FallbackRequested(s)
    /\ invoked[s] = 0
    /\ s \notin timedOut \cup closed \cup cancelled

C11_FallbackRegistersAtOpen ==
    \A s \in Sessions : ManualFallbackOpen(s) => s \in Range(simulateCallbacks)

\* C12: a simulateVoiceInput call that invokes a continuation invokes that of
\* the session opened last, and no other, with the simulated confidence; after
\* it the manual slot and the callbacks list are empty and the channel is
\* inactive.
C12_SimulateDeliversToCurrent ==
    [][(invoked' # invoked /\ lastRun'.confidence = SimulatedConfidence) =>
           /\ \A s \in Sessions : invoked'[s] # invoked[s] => s = opened
           /\ lastRun'.session = opened
           /\ manualVoiceCallback' = NoCallback
           /\ svc'.callbacks = <<>>
           /\ ~svc'.isListening]_vars

\* C13: the cached permission flag is write-once: once true it never becomes
\* false again, and a startListening call starts a new acquisition only while
\* the flag is false.
C13_PermissionFlagWriteOnce ==
    [][/\ svc.hasPermission => svc'.hasPermission
       /\ \A s \in Sessions :
              (phase[s] # "awaitingPermission" /\ phase'[s] = "awaitingPermission")
                  => ~svc.hasPermission]_vars

\* C14: with the location fix unavailable, getNearbyRoutes returns (it has no
\* throwing outcome) a non-empty route list with the location label
\* "Unknown location".
C14_UnavailableGivesUnknownLocation ==
    (call.fn = "getNearbyRoutes" /\ call.location = NoFix) =>
        /\ ret.routes # <<>>
        /\ ret.currentLocation = "Unknown location"

\* C15: for every location outcome, every route getNearbyRoutes returns is a
\* route of KL_BUS_ROUTES; T400, which the KLCC stop serves and the catalog
\* does not know, never appears.
C15_NearbyRoutesInCatalog ==
    call.fn = "getNearbyRoutes" =>
        \A i \in DOMAIN ret.routes :
            /\ ret.routes[i] \in Range(KL_BUS_ROUTES)
            /\ ret.routes[i].routeId # <<"T","4","0","0">>

C15_Witness ==
    /\ call.fn = "getNearbyRoutes"
    /\ call.location \in Fixes
    /\ <<"T","4","0","0">> \in
           Range(flatRoutes(getNearbyBusStops(call.location, DefaultMaxDistance)))
    /\ ret.routes # <<>>

\* C16: extractRouteFromVoice returns none exactly when the lowercased,
\* trimmed text contains no phrase of the spoken-number table and matches no
\* numeric pattern; "", blank text and "random text" give none, "five eight
\* one" gives "581" and "t581" gives "T581".
ExtractExamples ==
    { << <<>>, Null >>,
      << <<" ">>, Null >>,
      << <<" "," "," ">>, Null >>,
      << <<"r","a","n","d","o","m"," ","t","e","x","t">>, Null >>,
      << <<"f","i","v","e"," ","e","i","g","h","t"," ","o","n","e">>,
         <<"5","8","1">> >>,
      << <<"t","5","8","1">>, <<"T","5","8","1">> >> }

C16_NoneExactlyWhenNothingMatches ==
    call.fn = "extractRouteFromVoice" =>
        \A lowered \in {toLowerCase(call.text)} :
          \A cleanText \in {trim(lowered)} :
            /\ (ret = Null) =
                  (/\ \A k \in DOMAIN spokenToDigit :
                          ~includes(cleanText, spokenToDigit[k].spoken)
                   /\ \A k \in DOMAIN patterns :
                          FirstMatch(cleanText, patterns[k]) = <<>>)
            /\ \A e \in ExtractExamples : call.text = e[1] => ret = e[2]

C16_Witness ==
    /\ call.fn = "extractRouteFromVoice"
    /\ call.text = <<" "," "," ">>
    /\ ret = Null

\* C17: every opened session terminates: under fair scheduling of timers and
\* platform callbacks the channel ends up idle for good, i.e. not listening,
\* with no continuation in the callbacks list or the manual slot, no timer
\* pending and no startListening call suspended.
ChannelIdle ==
    /\ ~svc.isListening
    /\ svc.callbacks = <<>>
    /\ manualVoiceCallback = NoCallback
    /\ timers = <<>>
    /\ \A s \in Sessions : ~AwaitingPermission(s)

C17_EverySessionTerminates == <>[]ChannelIdle

\* C18: when a session is Listening and the recognizer fires a result event,
\* that session's continuation is invoked exactly once (it had never run
\* before), with the event's transcript and confidence, no other
\* continuation runs, and afterwards the recognizer is stopped, the channel is
\* inactive and the callbacks list is empty.
ResultEventStep ==
    /\ recognizer \in {"running", "stopping"}
    /\ recognizer' = "ending"
    /\ errored' = errored

C18_ResultDeliveredOnce ==
    [][\A s \in Sessions :
          (Listening(s) /\ ResultEventStep) =>
              /\ invoked[s] = 0
              /\ invoked' = [invoked EXCEPT ![s] = 1]
              /\ lastRun'.session = s
              /\ lastRun'.text \in Texts
              /\ lastRun'.confidence \in Confidences
              /\ ~svc'.isListening
              /\ svc'.callbacks = <<>>
              /\ recognizer' # "running"]_vars

C18_Witness ==
    /\ lastRun.session # 0
    /\ lastRun.confidence \in Confidences
    /\ invoked[lastRun.session] = 1
    /\ recognizer = "ending"
    /\ svc.callbacks = <<>>

\* C19: a 15 s timeout armed by a manual-fallback session does not fire once
\* that session was closed or delivered, so no step in which such a timeout
\* fires empties the callbacks list of a session opened later.
StaleTimeoutHitsLaterSession ==
    \E i \in DOMAIN timers :
        /\ timers[i].kind = "timeout"
        /\ timers' = RemoveAt(timers, i)
        /\ timers[i].cb \in closed \/ invoked[timers[i].cb] > 0
        /\ \E s \in Sessions :
               /\ s > timers[i].cb
               /\ s \in Range(svc.callbacks)
               /\ svc'.callbacks = <<>>
               /\ invoked'[s] = invoked[s]

C19_ClosedTimeoutNeverFires == [][~StaleTimeoutHitsLaterSession]_vars

\* C20: stopListening is idempotent and safe in every state: applied twice
\* it gives what it gives applied once, it ends in a recognizer state (it
\* does not throw) whatever the recognizer is, absent included, and a step
\* that only calls it (close, timeout, error event) invokes no continuation
\* and leaves a state that a second call would not change.
StopListeningOnlyStep ==
    \/ closed' # closed
    \/ cancelled' # cancelled
    \/ timedOut' # timedOut
    \/ errored' # errored

C20_StopListeningIdempotent ==
    [][/\ stopListening(stopListening(svc)) = stopListening(svc)
       /\ recognitionStop(recognizer) \in RecognizerStates
       /\ recognitionStop(recognitionStop(recognizer)) = recognitionStop(recognizer)
       /\ StopListeningOnlyStep =>
              /\ invoked' = invoked
              /\ svc' = stopListening(svc')
              /\ recognizer' \in RecognizerStates
              /\ recognizer' = recognitionStop(recognizer')]_vars

\* a session closed while armed whose timeout then called stopListening
\* again, on a platform without a recognizer
C20_Witness ==
    /\ recognizer = "absent"
    /\ closed \cap timedOut # {}

\* C21: when the handler runs on a text whose candidate is missing or not in
\* the session's active set, it surfaces a re-prompt, hands no route to
\* selectRoute (the quick actions stay as they are) and opens no session; a
\* session is opened only by a user's double tap, never in a step that runs
\* a handler.
NoMatchExpected(s, text) ==
    \/ extractedRoute[text] = Null
    \/ \A r \in Range(activeSet[s]) :
           ~SameIgnoringCase(r.routeId, extractedRoute[text])

C21_RepromptWithoutReopen ==
    [][/\ \A s \in Sessions :
              (invoked'[s] # invoked[s] /\ NoMatchExpected(s, lastRun'.text)) =>
                  /\ lastRun'.session = s
                  /\ lastRun'.matched = NoRoute
                  /\ lastRun'.reprompt # Null
                  /\ screen'.showQuickActions = screen.showQuickActions
                  /\ opened' = opened
                  /\ phase' = phase
       /\ opened' # opened =>
              /\ ~screen.showQuickActions
              /\ screen.lastTap # 0
              /\ invoked' = invoked]_vars

C21_Witness ==
    /\ lastRun.session # 0
    /\ lastRun.matched = NoRoute
    /\ lastRun.reprompt # Null
    /\ screen.showQuickActions
    /\ opened = lastRun.session
    /\ ~svc.isListening
    /\ timers = <<>>

\* C22: the voice channel is opened only once the nearby routes are loaded
\* and not empty: a step that opens a session starts from a state that is
\* not loading and has routes, and every opened session captured a non-empty
\* active set.
C22_OpenOnlyWithRoutes ==
    [][/\ opened' # opened =>
              /\ ~screen.isLoadingRoutes
              /\ screen.nearbyRoutes # <<>>
       /\ \A s \in Sessions :
              phase'[s] # "unopened" => activeSet'[s] # <<>>]_vars

C22_Witness ==
    /\ opened > 0
    /\ activeSet[opened] # <<>>
    /\ activeSet[opened] = screen.nearbyRoutes

\* C23: if the cleaned text contains a phrase of the spoken-number table, the
\* result is the digit string of the first such phrase in declaration order,
\* digits in the text notwithstanding: "581 or eight four" gives "84" and
\* "five eight one" gives "581", not "58".
C23_SpokenPhrasesFirst ==
    call.fn = "extractRouteFromVoice" =>
        \A cleanText \in {cleanTextOf(call.text)} :
            LET hits == {k \in DOMAIN spokenToDigit :
                            includes(cleanText, spokenToDigit[k].spoken)}
            IN /\ hits # {} =>
                      ret = spokenToDigit[CHOOSE k \in hits :
                                             \A h \in hits : k <= h].digit
               /\ call.text = <<"5","8","1"," ","o","r"," ","e","i","g","h","t"," ","f","o","u","r">> => ret = <<"8","4">>
               /\ call.text = <<"f","i","v","e"," ","e","i","g","h","t"," ","o","n","e">> => ret = <<"5","8","1">>

C23_Witness ==
    /\ call.fn = "extractRouteFromVoice"
    /\ call.text = <<"5","8","1"," ","o","r"," ","e","i","g","h","t"," ","f","o","u","r">>
    /\ ret = <<"8","4">>

\* C24: if the cleaned text contains no table phrase, the patterns are tried
\* in the order bare digits, T-, U-, B-prefixed, and the first pattern that
\* matches anywhere gives the result: its leftmost match, spaces removed,
\* upper-cased ("t581 or 400" gives "400"); if none of the four matches the
\* result is none.
C24_PatternPrecedence ==
    call.fn = "extractRouteFromVoice" =>
        \A cleanText \in {cleanTextOf(call.text)} :
            LET phrases == {k \in DOMAIN spokenToDigit :
                               includes(cleanText, spokenToDigit[k].spoken)}
                hits == {k \in 1..4 : FirstMatch(cleanText, patterns[k]) # <<>>}
            IN /\ (phrases = {} /\ hits # {}) =>
                      ret = toUpperCase(RemoveSpaces(FirstMatch(cleanText,
                                patterns[CHOOSE k \in hits : \A h \in hits : k <= h])))
               /\ (phrases = {} /\ hits = {}) => ret = Null
               /\ call.text = <<"t","5","8","1"," ","o","r"," ","4","0","0">> => ret = <<"4","0","0">>

C24_Witness ==
    /\ call.fn = "extractRouteFromVoice"
    /\ call.text = <<"t","5","8","1"," ","o","r"," ","4","0","0">>
    /\ ret = <<"4","0","0">>

\* C25: with the fix unavailable the stops are the first 3 catalog stops and
\* getNearbyRoutes returns exactly the first 5 catalog routes.
C25_UnavailableGivesFixedFallback ==
    (call.fn = "getNearbyRoutes" /\ call.location = NoFix) =>
        /\ getNearbyBusStops(NoFix, DefaultMaxDistance) = <<1, 2, 3>>
        /\ ret.routes = slice(KL_BUS_ROUTES, 5)

\* C26: with a fix, getNearbyBusStops returns at most 5 distinct stops, each
\* within the radius, in non-decreasing distance; no stop within the radius
\* that was left out is nearer than a returned one; a stop at distance 0 is
\* returned first.
C26_NearestStopsWithinRadius ==
    (call.fn = "getNearbyBusStops" /\ call.location \in Fixes \cup MoreFixes) =>
        /\ Len(ret.stops) <= 5
        /\ \A k \in DOMAIN ret.stops :
               /\ ret.stops[k] \in DOMAIN KL_BUS_STOPS
               /\ calculateDistance(call.location, ret.stops[k]) <= call.maxDistance
        /\ \A j, k \in DOMAIN ret.stops :
               j < k => /\ ret.stops[j] # ret.stops[k]
                        /\ calculateDistance(call.location, ret.stops[j])
                               <= calculateDistance(call.location, ret.stops[k])
        /\ \A i \in DOMAIN KL_BUS_STOPS \ Range(ret.stops) :
               calculateDistance(call.location, i) <= call.maxDistance =>
                   /\ Len(ret.stops) = 5
                   /\ \A k \in DOMAIN ret.stops :
                          calculateDistance(call.location, ret.stops[k])
                              <= calculateDistance(call.location, i)
        /\ \A i \in DOMAIN KL_BUS_STOPS :
               calculateDistance(call.location, i) = 0 =>
                   (ret.stops # <<>> /\ ret.stops[1] = i)

C26_Witness ==
    /\ call.fn = "getNearbyBusStops"
    /\ call.location = "atBukitBintang"
    /\ call.maxDistance = 4000
    /\ ret.stops = <<2, 3, 1>>

\* the identifiers of ids that the catalog knows, each once, in the order of
\* their first occurrence
FirstSeenInCatalog(ids) ==
    LET keep == {i \in DOMAIN ids :
                    /\ \E r \in Range(KL_BUS_ROUTES) : r.routeId = ids[i]
                    /\ \A j \in 1..(i-1) : ids[j] # ids[i]}
    IN [k \in 1..Cardinality(keep) |->
           ids[CHOOSE i \in keep : Cardinality({j \in keep : j < i}) + 1 = k]]

\* C27: when getNearbyBusStops keeps at least one stop, the label is the name
\* of the first (nearest) stop and the routes are the catalog identifiers the
\* kept stops serve, each once, in first-seen order, cut to 6.
C27_RoutesOfKeptStops ==
    (call.fn = "getNearbyRoutes" /\ call.location # Throws) =>
        \A nearbyStops \in {getNearbyBusStops(call.location, DefaultMaxDistance)} :
            nearbyStops # <<>> =>
                /\ ret.currentLocation = KL_BUS_STOPS[nearbyStops[1]].stopName
                /\ [i \in DOMAIN ret.routes |-> ret.routes[i].routeId]
                       = slice(FirstSeenInCatalog(flatRoutes(nearbyStops)), 6)
                /\ Len(ret.routes) <= 6

C27_Witness ==
    /\ call.fn = "getNearbyRoutes"
    /\ call.location = "nearKLCC"
    /\ getNearbyBusStops(call.location, DefaultMaxDistance) = <<3, 2>>
    /\ ret.currentLocation = "KLCC"
    /\ [i \in DOMAIN ret.routes |-> ret.routes[i].routeId]
           = << <<"B","1","0","1">>, <<"4","0","0">>, <<"5","0","0">> >>

\* C28: with a fix and no catalog stop within the default radius,
\* getNearbyRoutes returns exactly the first 5 catalog routes, labelled
\* "Unknown location".
C28_NoStopInRadius ==
    (/\ call.fn = "getNearbyRoutes"
     /\ call.location \in Fixes \cup MoreFixes
     /\ \A i \in DOMAIN KL_BUS_STOPS :
            calculateDistance(call.location, i) > DefaultMaxDistance) =>
        /\ ret.routes = slice(KL_BUS_ROUTES, 5)
        /\ ret.currentLocation = "Unknown location"

C28_Witness ==
    /\ call.fn = "getNearbyRoutes"
    /\ call.location = "farAway"
    /\ Len(ret.routes) = 5
    /\ ret.currentLocation = "Unknown location"

\* C29: for NaN coordinates and for a throwing try block getNearbyRoutes
\* returns the routes and the label it returns when the fix is unavailable.
C29_FailuresLikeUnavailable ==
    (call.fn = "getNearbyRoutes" /\ call.location \in {NaNCoords, Throws}) =>
        /\ ret.routes = getNearbyRoutesCaught(NoFix).routes
        /\ ret.currentLocation = getNearbyRoutesCaught(NoFix).currentLocation

\* C30: for a catalog identifier and any random outcomes getBusArrivalTimes
\* returns 1 to 3 arrivals in non-decreasing arrivalMinutes, the first being
\* the nearest; for any other identifier it throws not-found.
C30_ArrivalsNearestFirst ==
    call.fn = "getBusArrivalTimes" =>
        IF \E r \in Range(KL_BUS_ROUTES) : r.routeId = call.routeId
        THEN /\ ~ret.notFound
             /\ Len(ret.arrivals) \in 1..3
             /\ \A j, k \in DOMAIN ret.arrivals :
                    j < k => ret.arrivals[j].arrivalMinutes
                                 <= ret.arrivals[k].arrivalMinutes
             /\ \A k \in DOMAIN ret.arrivals :
                    /\ ret.arrivals[k].routeId = call.routeId
                    /\ ret.arrivals[1].arrivalMinutes
                           <= ret.arrivals[k].arrivalMinutes
        ELSE ret.notFound /\ ret.arrivals = <<>>

C30_Witness ==
    /\ call.fn = "getBusArrivalTimes"
    /\ call.numberOfBuses = 3
    /\ call.intervals = <<24, 10>>
    /\ ~ret.notFound
    /\ Len(ret.arrivals) = 3
    /\ ret.arrivals[2].arrivalMinutes = call.baseTime + 20
    /\ ret.arrivals[3].arrivalMinutes = call.baseTime + 24

\* C31: in the step where a startListening call runs to its end, the
\* recognizer is started only if the permission flag is true, a recognizer
\* exists and the channel is not listening; if one of the three fails the
\* recognizer and the channel's fields are left alone and the manual prompt
\* timer is set; and nothing but startListening starts the recognizer.
C31_StartOnlyWhenPermittedAndFree ==
    [][/\ \A s \in Sessions :
              (phase[s] # "resumed" /\ phase'[s] = "resumed") =>
                  LET free == /\ svc'.hasPermission
                              /\ recognizer # "absent"
                              /\ ~svc.isListening
                  IN /\ recognizer' # recognizer =>
                            /\ free
                            /\ recognizer = "idle" /\ recognizer' = "running"
                            /\ timers' = timers
                     /\ ~free =>
                            /\ recognizer' = recognizer
                            /\ svc'.isListening = svc.isListening
                            /\ svc'.callbacks = svc.callbacks
                            /\ timers' = promptForManualInput(timers, s)
       /\ (recognizer # "running" /\ recognizer' = "running") =>
              \E s \in Sessions : phase[s] # "resumed" /\ phase'[s] = "resumed"]_vars

C31_Witness ==
    /\ opened = MaxSessions
    /\ recognizer = "running"
    /\ svc.hasPermission
    /\ svc.callbacks = <<1>>
    /\ PromptPending(opened)

\* C32: whenever the screen's isListening flag is true the channel is not idle:
\* it is listening, waits for the permission or a timer, or holds a
\* continuation (in the callbacks list or the manual slot).
C32_IndicatorAgreesWithChannel == screen.isListening => ~ChannelIdle

\* C33: extractRouteFromVoice applied to a catalog route's identifier, in
\* upper or lower case, returns the identifier up to letter case, and the
\* matcher confirms exactly that route in every active set that holds it.
C33_CatalogIdsSelectable ==
    call.fn = "extractRouteFromVoice" =>
        \A r \in Range(KL_BUS_ROUTES) :
            SameIgnoringCase(call.text, r.routeId) =>
                /\ ret # Null
                /\ SameIgnoringCase(ret, r.routeId)
                /\ \A location \in Locations :
                       r \in Range(nearbyRoutesAt[location].routes) =>
                           matchRoute(nearbyRoutesAt[location].routes, ret) = r

C33_Witness ==
    /\ call.fn = "extractRouteFromVoice"
    /\ call.text = <<"b","1","0","1">>
    /\ ret = <<"B","1","0","1">>
    /\ \E location \in Locations :
           matchRoute(nearbyRoutesAt[location].routes, ret) = KL_BUS_ROUTES[4]

\* C34: the arrival lookup of a selected route, whether confirmed by voice or
\* tapped in the list, never answers not-found: every route of the screen's
\* list and of every session's active set is a catalog record, found under
\* its own routeId.
C34_SelectedRouteResolves ==
    /\ arrivalLookup # "notFound"
    /\ \A r \in Range(screen.nearbyRoutes)
                 \cup UNION {Range(activeSet[s]) : s \in Sessions} :
           getBusArrivalTimesRoute(r.routeId) = r

\* a route with a letter in its identifier was selected by voice, and the
\* lookup found it
C34_Witness ==
    /\ arrivalLookup = "found"
    /\ lastRun.matched = KL_BUS_ROUTES[2]
    /\ ~screen.showQuickActions

RunInProgress(r) == camera.run[r].stage \in {"capturing", "analyzing"}

\* C35: at most one capture-and-analyze run is in progress; a request made
\* while isAnalyzing is true starts nothing; the step that ends a run stores
\* exactly one announcement (a result or the error message) in lastAnalysis
\* and leaves isAnalyzing false; and every run that started ends.
C35_OneRunAtATime ==
    /\ [][/\ Cardinality({r \in 1..MaxRequests : RunInProgress(r)'}) <= 1
          /\ (camera'.requests # camera.requests /\ camera.isAnalyzing) =>
                 (camera'.started = camera.started /\ camera'.run = camera.run)
          /\ \A r \in 1..MaxRequests :
                 /\ RunInProgress(r)' => camera'.isAnalyzing /\ camera'.run[r].stored = 0
                 /\ (RunInProgress(r) /\ ~RunInProgress(r)') =>
                        /\ camera'.run[r].stage = "done"
                        /\ camera'.run[r].stored = 1
                        /\ ~camera'.isAnalyzing
                        /\ camera'.lastAnalysis # <<>>]_vars
    /\ \A r \in 1..MaxRequests :
           RunInProgress(r) ~> camera.run[r].stage = "done"

C35_Witness ==
    /\ camera.requests = 3
    /\ camera.started = 2
    /\ camera.run[1] = [stage |-> "done", stored |-> 1]
    /\ RunInProgress(2)
    /\ camera.isAnalyzing
    /\ camera.lastAnalysis = <<"Buses detected: ", "581", ". ",
                               "Obstacles found: ", "pole", ". ">>

====
